---- MODULE Spec2Model ----
(***************************************************************************)
(* Byte-layout decoders of the Raydium pool accounts (V4, CPMM, CLMM,      *)
(* launchpad) and the primitive readers of tool.rs.                        *)
(*                                                                         *)
(* Representation of values.  A byte is a number 0..255.  The buffer       *)
(* `data` is the sequence of bytes of the slice; the byte at Rust offset o *)
(* is data[o + 1].  TLC's integers are 32 bits wide, so an unsigned        *)
(* integer of 8 to 128 bits is kept as its base-256 numeral, most          *)
(* significant digit first: the u16 0x0102 is <<1, 2>>.  The digit of      *)
(* weight 256^i of a numeral n is n[Len(n) - i].  The signed 32-bit tick   *)
(* fits and is kept as an integer.  An identifier (Pubkey) is its 32 raw   *)
(* bytes in wire order.  Targets are little-endian (x86_64, aarch64, SBF), *)
(* so the native-endian struct cast of the V4 decoder reads little-endian. *)
(***************************************************************************)
EXTENDS Integers, Sequences, FiniteSets, TLC

VARIABLES
    data,     \* the bytes of the slice handed to the next call
    aligned,  \* whether the slice starts at an address that is a multiple of 8
    known,    \* the fields the caller wrote into the buffer: [o, k, v]
    res,      \* the outcome of the last decoder or reader call
    met,      \* the outcome of the last metric call on the record in res
    lookups   \* the two balance lookups of a price call in progress

vars == <<data, aligned, known, res, met, lookups>>

------------------------------------------------------------------------------
(* Program constants *)

LAUNCHPAD_POOL_STATE_DATA_SIZE == 429
RAYDIUM_LIQUIDITY_POOL_CPMM_DATA_SIZE == 637
RAYDIUM_LIQUIDITY_POOL_CLMM_DATA_SIZE == 1544
RAYDIUM_LIQUIDITY_POOL_V4_DATA_SIZE == 752
DISCRIMINATOR_LEN == 8

(* Bounds of the model *)

\* buffers are allocated with every length within MaxDelta of a declared size
MaxDelta == 1
\* the caller writes at most MaxPuts fields into a fresh zero-filled buffer
MaxPuts == 2

------------------------------------------------------------------------------
(* Values *)

\* width in bytes of a wire kind
Width(k) ==
    CASE k = "u8" -> 1
      [] k = "bool" -> 1
      [] k = "u16" -> 2
      [] k = "i32" -> 4
      [] k = "u32" -> 4
      [] k = "u64" -> 8
      [] k = "u128" -> 16
      [] k = "pubkey" -> 32

\* d[o .. o + w] of Rust: the w bytes from offset o, in wire order
Slice(d, o, w) == [j \in 1..w |-> d[o + j]]

\* mutant: the bytes are taken most significant first (from_be_bytes)
from_be_bytes(bs) == bs

\* uN::from_le_bytes: the numeral whose digit of weight 256^i is byte i
from_le_bytes(bs) == [j \in 1..Len(bs) |-> bs[Len(bs) + 1 - j]]

\* i32::from_le_bytes: two's complement
i32_from_le_bytes(bs) ==
    bs[1] + 256 * bs[2] + 65536 * bs[3]
      + 16777216 * (IF bs[4] >= 128 THEN bs[4] - 256 ELSE bs[4])

\* `x as u8`: the digit of weight 1
as_u8(n) == <<n[Len(n)]>>

\* the numeral without its leading zero digits (the number itself)
RECURSIVE Canon(_)
Canon(n) == IF n = <<>> \/ n[1] # 0 THEN n ELSE Canon(Tail(n))

Zeros(w) == [j \in 1..w |-> 0]

------------------------------------------------------------------------------
(* Unsigned integer arithmetic on numerals of equal length *)

\* a < b
NLess(a, b) ==
    \E i \in 1..Len(a) : a[i] < b[i] /\ \A j \in 1..(i - 1) : a[j] = b[j]

\* the carry out of the digits after position i in a + b
NCarry(a, b, i) ==
    \E k \in (i + 1)..Len(a) :
        a[k] + b[k] > 255 /\ \A j \in (i + 1)..(k - 1) : a[j] + b[j] = 255

\* a.wrapping_add(b)
wrapping_add(a, b) ==
    [i \in 1..Len(a) |->
        (a[i] + b[i] + (IF NCarry(a, b, i) THEN 1 ELSE 0)) % 256]

\* a + b does not fit the width
add_overflows(a, b) == NCarry(a, b, 0)

\* the borrow taken by the digits after position i in a - b
NBorrow(a, b, i) ==
    \E k \in (i + 1)..Len(a) :
        a[k] < b[k] /\ \A j \in (i + 1)..(k - 1) : a[j] = b[j]

\* a.wrapping_sub(b)
wrapping_sub(a, b) ==
    [i \in 1..Len(a) |->
        (a[i] - b[i] - (IF NBorrow(a, b, i) THEN 1 ELSE 0) + 256) % 256]

Digit(a, i) == IF i \in 1..Len(a) THEN a[i] ELSE 0

\* a >> s and a << s at the width of a
Shr(a, s) ==
    [i \in 1..Len(a) |->
        ((Digit(a, i - (s \div 8) - 1) * 256 + Digit(a, i - (s \div 8)))
            \div (2 ^ (s % 8))) % 256]

Shl(a, s) ==
    [i \in 1..Len(a) |->
        ((Digit(a, i + (s \div 8)) * 256 + Digit(a, i + (s \div 8) + 1))
            \div (2 ^ (8 - (s % 8)))) % 256]

\* the number of significant bits of a
BitLen(a) ==
    IF a = Zeros(Len(a)) THEN 0
    ELSE LET i == CHOOSE k \in 1..Len(a) :
                      a[k] # 0 /\ \A j \in 1..(k - 1) : a[j] = 0
             b == CHOOSE n \in 1..8 : 2 ^ (n - 1) <= a[i] /\ a[i] < 2 ^ n
         IN 8 * (Len(a) - i) + b

\* a at the width of w digits (w >= the significant digits of a)
Resize(a, w) == [i \in 1..w |-> Digit(a, i + Len(a) - w)]

One(w) == [i \in 1..w |-> IF i = w THEN 1 ELSE 0]

IsOdd(a) == a[Len(a)] % 2 = 1

------------------------------------------------------------------------------
(* f64: the values the metrics compute.  A finite value is m * 2^x with m *)
(* a 7-digit numeral of exactly 53 significant bits, or m = 0; all the    *)
(* values computed here are non-negative.                                 *)

F64Zero == [c |-> "fin", m |-> Zeros(7), x |-> 0]
F64One == [c |-> "fin", m |-> <<16, 0, 0, 0, 0, 0, 0>>, x |-> 0 - 52]
F64Inf == [c |-> "inf", m |-> Zeros(7), x |-> 0]
F64NaN == [c |-> "nan", m |-> Zeros(7), x |-> 0]

IsZero(f) == f.c = "fin" /\ f.m = Zeros(7)

\* the f64 nearest to a * 2^x, ties to the even mantissa (a has >= 8 digits)
RoundF(a, x) ==
    LET n == BitLen(a) IN
    IF n = 0 THEN F64Zero
    ELSE IF n <= 53
    THEN [c |-> "fin", m |-> Resize(Shl(a, 53 - n), 7), x |-> x - (53 - n)]
    ELSE LET s == n - 53
             t == Shr(a, s)
             half == IsOdd(Shr(a, s - 1))
             sticky == Shl(Shr(a, s - 1), s - 1) # a
             up == half /\ (sticky \/ IsOdd(t))
             t1 == IF up THEN wrapping_add(t, One(Len(t))) ELSE t
         IN IF BitLen(t1) = 54
            THEN [c |-> "fin", m |-> Resize(Shr(t1, 1), 7), x |-> x + s + 1]
            ELSE [c |-> "fin", m |-> Resize(t1, 7), x |-> x + s]

\* `n as f64` for an unsigned integer n of 64 or 128 bits
as_f64(n) == RoundF(n, 0)

\* a mantissa as two limbs of 26 and 27 bits, for the long division
Limbs(m) ==
    [h |-> m[1] * 2097152 + m[2] * 8192 + m[3] * 32 + m[4] \div 8,
     l |-> (m[4] % 8) * 16777216 + m[5] * 65536 + m[6] * 256 + m[7]]

\* one step of the long division by b: the remainder is doubled, b is
\* subtracted when it fits, and the quotient bit is appended to st.q
DivStep(st, b) ==
    LET l2 == (2 * st.l) % 134217728
        h2 == 2 * st.h + (2 * st.l) \div 134217728
    IN IF h2 < b.h \/ (h2 = b.h /\ l2 < b.l)
       THEN [h |-> h2, l |-> l2, q |-> 2 * st.q]
       ELSE IF l2 >= b.l
       THEN [h |-> h2 - b.h, l |-> l2 - b.l, q |-> 2 * st.q + 1]
       ELSE [h |-> h2 - b.h - 1, l |-> l2 - b.l + 134217728,
             q |-> 2 * st.q + 1]

\* eight steps: one more byte of the quotient
DivStep8(st, b) ==
    DivStep(DivStep(DivStep(DivStep(
        DivStep(DivStep(DivStep(DivStep([st EXCEPT !.q = 0], b), b), b), b),
        b), b), b), b)

\* k more bytes of the quotient, appended to qs (each byte is computed
\* before the next is begun)
RECURSIVE DivLoop(_, _, _, _)
DivLoop(st, qs, b, k) ==
    IF k = 0 THEN [st |-> st, qs |-> qs]
    ELSE LET s8 == DivStep8(st, b) IN
         IF s8.q >= 0 THEN DivLoop(s8, Append(qs, s8.q), b, k - 1)
         ELSE [st |-> s8, qs |-> qs]

\* a / b
f64_div(a, b) ==
    IF a.c = "nan" \/ b.c = "nan" THEN F64NaN
    ELSE IF a.c = "inf" THEN (IF b.c = "inf" THEN F64NaN ELSE F64Inf)
    ELSE IF b.c = "inf" THEN F64Zero
    ELSE IF IsZero(b) THEN (IF IsZero(a) THEN F64NaN ELSE F64Inf)
    ELSE IF IsZero(a) THEN F64Zero
    ELSE LET la == Limbs(a.m)
             lb == Limbs(b.m)
             less == la.h < lb.h \/ (la.h = lb.h /\ la.l < lb.l)
             st0 == IF less THEN [h |-> la.h, l |-> la.l, q |-> 0]
                    ELSE IF la.l >= lb.l
                    THEN [h |-> la.h - lb.h, l |-> la.l - lb.l, q |-> 0]
                    ELSE [h |-> la.h - lb.h - 1,
                          l |-> la.l - lb.l + 134217728, q |-> 0]
             dv == DivLoop(st0, <<IF less THEN 0 ELSE 1>>, lb, 7)
             \* 57 quotient bits and, below them, whether a remainder is left
             q1 == LET q2 == Shl(dv.qs, 1) IN
                   IF dv.st.h = 0 /\ dv.st.l = 0 THEN q2
                   ELSE wrapping_add(q2, One(8))
         IN RoundF(q1, a.x - b.x - 57)

\* the digit of weight 256^k of the product, before carries (k from 0)
MulColumn(a, b, k) ==
    LET idx == {i \in 0..(Len(a) - 1) : k - i \in 0..(Len(b) - 1)}
        term[i \in 0..Len(a)] ==
            IF i = Len(a) THEN 0
            ELSE (IF i \in idx THEN a[Len(a) - i] * b[Len(b) - (k - i)] ELSE 0)
                   + term[i + 1]
    IN term[0]

\* the full product of two numerals, Len(a) + Len(b) digits
NMul(a, b) ==
    LET w == Len(a) + Len(b)
        sum[k \in 0..(w - 1)] ==
            MulColumn(a, b, k) + (IF k = 0 THEN 0 ELSE sum[k - 1] \div 256)
    IN [i \in 1..w |-> sum[w - i] % 256]

\* a * b
f64_mul(a, b) ==
    IF a.c = "nan" \/ b.c = "nan" THEN F64NaN
    ELSE IF a.c = "inf" \/ b.c = "inf"
    THEN (IF IsZero(a) \/ IsZero(b) THEN F64NaN ELSE F64Inf)
    ELSE IF IsZero(a) \/ IsZero(b) THEN F64Zero
    ELSE RoundF(NMul(a.m, b.m), a.x + b.x)

\* a > 1.0
f64_gt_one(a) ==
    \/ a.c = "inf"
    \/ a.c = "fin" /\ ~IsZero(a)
         /\ (a.x > 0 - 52 \/ (a.x = 0 - 52 /\ a.m # F64One.m))

\* a.min(1.0): the other operand when one is NaN
f64_min_one(a) == IF a.c = "nan" \/ f64_gt_one(a) THEN F64One ELSE a

\* u64::MAX
U64_MAX == [i \in 1..8 |-> 255]

\* `a as u64`: truncation towards zero, saturating, NaN to 0
f64_as_u64(a) ==
    IF a.c = "nan" THEN Zeros(8)
    ELSE IF a.c = "inf" THEN U64_MAX
    ELSE IF IsZero(a) THEN Zeros(8)
    ELSE IF a.x >= 12 THEN U64_MAX
    ELSE IF a.x >= 0 THEN Shl(Resize(a.m, 8), a.x)
    ELSE IF 0 - a.x >= 53 THEN Zeros(8)
    ELSE Resize(Shr(a.m, 0 - a.x), 8)

------------------------------------------------------------------------------
(* The cursor closures of the decoders.  Each returns the value read and   *)
(* the advanced offset; indexing outside the slice panics.                 *)

\* Rust's bounds check on d[o] and d[o .. o + w]
InBounds(d, o, w) == o + w <= Len(d)

read_u8(d, o) == [v |-> <<d[o + 1]>>, o |-> o + 1]

read_u16(d, o) == [v |-> from_le_bytes(Slice(d, o, 2)), o |-> o + 2]

read_i32(d, o) == [v |-> i32_from_le_bytes(Slice(d, o, 4)), o |-> o + 4]

read_u64(d, o) == [v |-> from_le_bytes(Slice(d, o, 8)), o |-> o + 8]

read_u128(d, o) == [v |-> from_le_bytes(Slice(d, o, 16)), o |-> o + 16]

read_pubkey(d, o) == [v |-> Slice(d, o, 32), o |-> o + 32]

\* mutant: only the byte 1 counts as true
ne_zero_only_one(b) == b = 1

\* `data[offset + 1] != 0`
ne_zero(b) == b # 0

\* one statement of a field walk: a read of kind e.k, or a plain advance
Step(d, o, e) ==
    CASE e.k = "u8" -> read_u8(d, o)
      [] e.k = "bool" -> [v |-> ne_zero(d[o + 1]), o |-> o + 1]
      [] e.k = "u16" -> read_u16(d, o)
      [] e.k = "i32" -> read_i32(d, o)
      [] e.k = "u64" -> read_u64(d, o)
      [] e.k = "u128" -> read_u128(d, o)
      [] e.k = "pubkey" -> read_pubkey(d, o)
      [] e.k = "bytes" -> [v |-> Slice(d, o, e.w), o |-> o + e.w]
      [] e.k = "skip" -> [v |-> <<>>, o |-> o + e.w]

\* table entries: a named field, an element of an array field, padding
F(n, k) == [n |-> n, i |-> 0, k |-> k, w |-> Width(k)]
FI(n, i, k) == [n |-> n, i |-> i, k |-> k, w |-> Width(k)]
P(k, w) == [n |-> "_padding", i |-> 0, k |-> k, w |-> w]

\* the bytes the statements tbl[lo..hi] advance the offset by
RECURSIVE Advance(_, _, _)
Advance(tbl, lo, hi) ==
    IF lo > hi THEN 0
    ELSE IF lo = hi THEN tbl[lo].w
    ELSE LET mid == (lo + hi) \div 2 IN
         Advance(tbl, lo, mid) + Advance(tbl, mid + 1, hi)

\* the straight-line sequence of statements tbl, started at offset `start`:
\* statement i runs at the offset the statements before it left.  The walk
\* panics at the first read that is not inside the slice; otherwise it
\* yields, per statement, the field, the span it consumed and its value
Walk(d, tbl, start) ==
    LET N == Len(tbl)
        off == [i \in 1..(N + 1) |-> start + Advance(tbl, 1, i - 1)]
        bad == {i \in 1..N : tbl[i].k # "skip" /\ ~InBounds(d, off[i], tbl[i].w)}
    IN IF bad # {} THEN [kind |-> "Panic", o |-> 0, fields |-> <<>>]
       ELSE [kind |-> "Ok", o |-> off[N + 1],
             fields |-> [i \in 1..N |->
                            [n |-> tbl[i].n, i |-> tbl[i].i, k |-> tbl[i].k,
                             o |-> off[i], w |-> tbl[i].w,
                             v |-> Step(d, off[i], tbl[i]).v]]]

\* results of a decoder call.  `ctx` is what an error message carries.  `fields`
\* holds the reads made, with the spans they consumed (for Ok, followed by the
\* derived fields: it is the record returned), `o` the offset reached, and
\* `checked` whether the final offset was compared with the length
Err(fn, err, ctx, fields, o, checked) ==
    [fn |-> fn, kind |-> "Err", err |-> err, ctx |-> ctx, fields |-> fields,
     o |-> o, checked |-> checked]
Panic(fn) ==
    [fn |-> fn, kind |-> "Panic", err |-> "", ctx |-> <<>>, fields |-> <<>>,
     o |-> 0, checked |-> FALSE]
Ok(fn, fields, o, checked) ==
    [fn |-> fn, kind |-> "Ok", err |-> "", ctx |-> <<>>, fields |-> fields,
     o |-> o, checked |-> checked]

\* the value of field n (element i) in a decoded record
Get(fields, n, i) ==
    fields[CHOOSE j \in 1..Len(fields) : fields[j].n = n /\ fields[j].i = i].v

------------------------------------------------------------------------------
(* launchpad.rs *)

\* the reads of lines 144-173, in order
LaunchpadWalk ==
    << F("epoch", "u64"), F("auth_bump", "u8"), F("status_byte", "u8"),
       F("base_decimals", "u8"), F("quote_decimals", "u8"),
       F("migrate_type_byte", "u8"),
       F("supply", "u64"), F("total_base_sell", "u64"),
       F("virtual_base", "u64"), F("virtual_quote", "u64"),
       F("real_base", "u64"), F("real_quote", "u64"),
       F("total_quote_fund_raising", "u64"), F("quote_protocol_fee", "u64"),
       F("platform_fee", "u64"), F("migrate_fee", "u64"),
       F("total_locked_amount", "u64"), F("cliff_period", "u64"),
       F("unlock_period", "u64"), F("start_time", "u64"),
       F("allocated_share_amount", "u64"),
       F("global_config", "pubkey"), F("platform_config", "pubkey"),
       F("base_mint", "pubkey"), F("quote_mint", "pubkey"),
       F("base_vault", "pubkey"), F("quote_vault", "pubkey"),
       F("creator", "pubkey"),
       F("token_program_flag_byte", "u8"),
       F("amm_creator_fee_on_byte", "u8") >>

\* mutant: only a slice that is too short is rejected
launchpad_size_mismatch_short(d) == Len(d) < LAUNCHPAD_POOL_STATE_DATA_SIZE

launchpad_size_mismatch(d) == Len(d) # LAUNCHPAD_POOL_STATE_DATA_SIZE

\* mutant: the tail is the 59 bytes the struct declares, not the remainder
launchpad_tail_declared(o) ==
    <<[n |-> "_padding", i |-> 0, k |-> "skip", o |-> o, w |-> 59, v |-> <<>>]>>

\* lines 174-177: the reserved tail, computed from the declared size.  The
\* subtraction is on usize: an offset past the size would panic (overflow)
launchpad_tail(o) ==
    IF LAUNCHPAD_POOL_STATE_DATA_SIZE - o > 0
    THEN <<[n |-> "_padding", i |-> 0, k |-> "skip", o |-> o,
            w |-> LAUNCHPAD_POOL_STATE_DATA_SIZE - o, v |-> <<>>]>>
    ELSE <<>>

\* mutant: an unknown status code is clamped to the highest known one
PoolStatus_clamped(b) ==
    CASE b = 0 -> "Fund" [] b = 1 -> "Migrate" [] OTHER -> "Trade"

PoolStatus(b) ==
    CASE b = 0 -> "Fund" [] b = 1 -> "Migrate" [] b = 2 -> "Trade"
      [] OTHER -> "Invalid"

MigrateType(b) ==
    CASE b = 0 -> "AMM" [] b = 1 -> "CPSWAP" [] OTHER -> "Invalid"

AmmCreatorFeeOn(b) ==
    CASE b = 0 -> "QuoteToken" [] b = 1 -> "BothToken" [] OTHER -> "Invalid"

\* mutant: any set bit of the flag byte selects the 2022 program
base_token_program_any_bit(b) ==
    IF b = 0 THEN "SPLTokenProgram" ELSE "TokenProgram2022"

\* token_program_flag_byte & 0b1 == 0
base_token_program(b) ==
    IF b % 2 = 0 THEN "SPLTokenProgram" ELSE "TokenProgram2022"

\* mutant: the quote side tests the mask of the base side
quote_token_program_bit0(b) ==
    IF b % 2 = 0 THEN "SPLTokenProgram" ELSE "TokenProgram2022"

\* token_program_flag_byte & 0b10 == 0
quote_token_program(b) ==
    IF (b \div 2) % 2 = 0 THEN "SPLTokenProgram" ELSE "TokenProgram2022"

\* the derived fields of LaunchpadPoolData (lines 185-215), put after the raw ones
LaunchpadEnums(fs) ==
    LET enum(n, v) == [n |-> n, i |-> 0, k |-> "enum", o |-> 0, w |-> 0, v |-> v]
        flag == Get(fs, "token_program_flag_byte", 0)[1]
    IN << enum("status", PoolStatus(Get(fs, "status_byte", 0)[1])),
          enum("migrate_type", MigrateType(Get(fs, "migrate_type_byte", 0)[1])),
          enum("base_token_program", base_token_program(flag)),
          enum("quote_token_program", quote_token_program(flag)),
          enum("amm_creator_fee_on",
               AmmCreatorFeeOn(Get(fs, "amm_creator_fee_on_byte", 0)[1])) >>

\* lines 216-252: the struct returned holds the decoded fields; the four raw
\* code bytes and the skipped tail are locals of the call
LaunchpadPoolData(fs) ==
    LET kept(e) ==
          e.n \notin {"status_byte", "migrate_type_byte",
                      "token_program_flag_byte", "amm_creator_fee_on_byte",
                      "_padding"}
    IN SelectSeq(fs, kept)

launchpad_get_liquidity_pool_info(d) ==
    IF launchpad_size_mismatch(d)
    THEN Err("launchpad", "SizeMismatch",
             <<LAUNCHPAD_POOL_STATE_DATA_SIZE, Len(d)>>, <<>>, 0, FALSE)
    ELSE LET wk == Walk(d, LaunchpadWalk, DISCRIMINATOR_LEN) IN
         IF wk.kind = "Panic" \/ wk.o > LAUNCHPAD_POOL_STATE_DATA_SIZE
         THEN Panic("launchpad")
         ELSE LET tail == launchpad_tail(wk.o)
                  offset == IF tail = <<>> THEN wk.o ELSE wk.o + tail[1].w
                  fs == wk.fields
                  st == Get(fs, "status_byte", 0)[1]
                  mt == Get(fs, "migrate_type_byte", 0)[1]
                  cf == Get(fs, "amm_creator_fee_on_byte", 0)[1]
              IN IF offset # Len(d)
                 THEN Err("launchpad", "OffsetMismatch", <<Len(d), offset>>,
                          fs \o tail, offset, TRUE)
                 ELSE IF PoolStatus(st) = "Invalid"
                 THEN Err("launchpad", "UnknownEnum", <<st>>,
                          fs \o tail, offset, TRUE)
                 ELSE IF MigrateType(mt) = "Invalid"
                 THEN Err("launchpad", "UnknownEnum", <<mt>>,
                          fs \o tail, offset, TRUE)
                 ELSE IF AmmCreatorFeeOn(cf) = "Invalid"
                 THEN Err("launchpad", "UnknownEnum", <<cf>>,
                          fs \o tail, offset, TRUE)
                 ELSE Ok("launchpad", fs \o tail \o LaunchpadEnums(fs),
                         offset, TRUE)

------------------------------------------------------------------------------
(* tool.rs: the primitive readers.  They return a bare value, and the      *)
(* zero value when the span is not inside the slice.  v4.rs imports r_u64  *)
(* and r_u128 under the path solana_tool::reader.                          *)

r_u8(d, offset) ==
    IF Len(d) <= offset THEN <<0>> ELSE <<d[offset + 1]>>

r_u16(d, offset) ==
    IF Len(d) < offset + 2 THEN Zeros(2) ELSE from_le_bytes(Slice(d, offset, 2))

r_u32(d, offset) ==
    IF Len(d) < offset + 4 THEN Zeros(4) ELSE from_le_bytes(Slice(d, offset, 4))

r_u64(d, offset) ==
    IF Len(d) < offset + 8 THEN Zeros(8) ELSE from_le_bytes(Slice(d, offset, 8))

r_u128(d, offset) ==
    IF Len(d) < offset + 16 THEN Zeros(16)
    ELSE from_le_bytes(Slice(d, offset, 16))

\* Pubkey::default() is the all-zero identifier
r_pubkey(d, offset) ==
    IF Len(d) < offset + 32 THEN Zeros(32) ELSE Slice(d, offset, 32)

------------------------------------------------------------------------------
(* liquidity/cpmm.rs *)

CPMM_EXPECTED_LEN == 637

\* mutant: three bytes of alignment padding follow the five single bytes, as
\* in the struct's offset comments
CpmmBytes_aligned ==
    << F("auth_bump", "u8"), F("status", "u8"), F("lp_mint_decimals", "u8"),
       F("mint_0_decimals", "u8"), F("mint_1_decimals", "u8"),
       P("skip", 3) >>

\* lines 107-112: five bytes indexed from the offset, then offset += 5
CpmmBytes ==
    << F("auth_bump", "u8"), F("status", "u8"), F("lp_mint_decimals", "u8"),
       F("mint_0_decimals", "u8"), F("mint_1_decimals", "u8") >>

\* the reads of lines 97-126, in order
CpmmWalk ==
    << F("amm_config", "pubkey"), F("pool_creator", "pubkey"),
       F("token_0_vault", "pubkey"), F("token_1_vault", "pubkey"),
       F("lp_mint", "pubkey"), F("token_0_mint", "pubkey"),
       F("token_1_mint", "pubkey"), F("token_0_program", "pubkey"),
       F("token_1_program", "pubkey"), F("observation_key", "pubkey") >>
    \o CpmmBytes
    \o << F("lp_supply", "u64"),
          F("protocol_fees_token_0", "u64"), F("protocol_fees_token_1", "u64"),
          F("fund_fees_token_0", "u64"), F("fund_fees_token_1", "u64"),
          F("open_time", "u64"), F("recent_epoch", "u64"),
          F("creator_fee_on", "u8"), F("enable_creator_fee", "bool"),
          P("bytes", 6),
          F("creator_fees_token_0", "u64"), F("creator_fees_token_1", "u64") >>

\* lines 127-134: `for i in 0..28`, leaving the loop at the first word that
\* would not fit: the words read are those that fit, 28 at most
cpmm_padding(d, o) ==
    LET fit == IF o > Len(d) THEN 0 ELSE (Len(d) - o) \div 8
        cnt == IF fit < 28 THEN fit ELSE 28
    IN [o |-> o + 8 * cnt,
        fields |-> [i \in 1..cnt |->
                       [n |-> "_padding", i |-> i - 1, k |-> "u64",
                        o |-> o + 8 * (i - 1), w |-> 8,
                        v |-> read_u64(d, o + 8 * (i - 1)).v]]]

cpmm_size_mismatch(d) == Len(d) # CPMM_EXPECTED_LEN

\* mutant: the walk starts at byte 0, as if the account had no discriminator
cpmm_get_liquidity_pool_info_from_0(d) ==
    IF cpmm_size_mismatch(d)
    THEN Err("cpmm", "SizeMismatch", <<CPMM_EXPECTED_LEN, Len(d)>>,
             <<>>, 0, FALSE)
    ELSE LET wk == Walk(d, CpmmWalk, 0)
             pad == cpmm_padding(d, wk.o)
         IN Ok("cpmm", wk.fields \o pad.fields, pad.o, FALSE)

\* no comparison of the final offset with the length is made
cpmm_get_liquidity_pool_info(d) ==
    IF cpmm_size_mismatch(d)
    THEN Err("cpmm", "SizeMismatch", <<CPMM_EXPECTED_LEN, Len(d)>>,
             <<>>, 0, FALSE)
    ELSE LET wk == Walk(d, CpmmWalk, DISCRIMINATOR_LEN) IN
         IF wk.kind = "Panic" THEN Panic("cpmm")
         ELSE LET pad == cpmm_padding(d, wk.o) IN
              Ok("cpmm", wk.fields \o pad.fields, pad.o, FALSE)

------------------------------------------------------------------------------
(* liquidity/clmm.rs *)

\* mutant: the vault of a reward slot is read before its mint
RewardInfo_vault_first(i) ==
    << FI("reward_state", i, "u8"), FI("reward_open_time", i, "u64"),
       FI("reward_end_time", i, "u64"), FI("reward_last_update_time", i, "u64"),
       FI("emissions_per_second_x64", i, "u128"),
       FI("reward_total_emissioned", i, "u64"), FI("reward_claimed", i, "u64"),
       FI("reward_token_vault", i, "pubkey"),
       FI("reward_token_mint", i, "pubkey"),
       FI("reward_authority", i, "pubkey"),
       FI("reward_growth_global_x64", i, "u128") >>

\* lines 205-215: the eleven reads of reward slot i
RewardInfo(i) ==
    << FI("reward_state", i, "u8"), FI("reward_open_time", i, "u64"),
       FI("reward_end_time", i, "u64"), FI("reward_last_update_time", i, "u64"),
       FI("emissions_per_second_x64", i, "u128"),
       FI("reward_total_emissioned", i, "u64"), FI("reward_claimed", i, "u64"),
       FI("reward_token_mint", i, "pubkey"),
       FI("reward_token_vault", i, "pubkey"),
       FI("reward_authority", i, "pubkey"),
       FI("reward_growth_global_x64", i, "u128") >>

\* the statements of lines 162-231, in order
ClmmWalk ==
    << F("bump", "u8"), F("amm_config", "pubkey"), F("owner", "pubkey"),
       F("token_mint_0", "pubkey"), F("token_mint_1", "pubkey"),
       F("token_vault_0", "pubkey"), F("token_vault_1", "pubkey"),
       F("observation_key", "pubkey"),
       F("mint_decimals_0", "u8"), F("mint_decimals_1", "u8"),
       F("tick_spacing", "u16"),
       F("liquidity", "u128"), F("sqrt_price_x64", "u128"),
       F("tick_current", "i32"),
       P("u16", 2), P("u16", 2),
       F("fee_growth_global_0_x64", "u128"),
       F("fee_growth_global_1_x64", "u128"),
       F("protocol_fees_token_0", "u64"), F("protocol_fees_token_1", "u64"),
       F("swap_in_amount_token_0", "u128"),
       F("swap_out_amount_token_1", "u128"),
       F("swap_in_amount_token_1", "u128"),
       F("swap_out_amount_token_0", "u128"),
       F("status", "u8"), P("skip", 7) >>
    \o RewardInfo(0) \o RewardInfo(1) \o RewardInfo(2)
    \o [i \in 1..16 |-> FI("tick_array_bitmap", i - 1, "u64")]
    \o << F("total_fees_token_0", "u64"),
          F("total_fees_claimed_token_0", "u64"),
          F("total_fees_token_1", "u64"),
          F("total_fees_claimed_token_1", "u64"),
          F("fund_fees_token_0", "u64"), F("fund_fees_token_1", "u64"),
          F("open_time", "u64"), F("recent_epoch", "u64"),
          P("skip", 24 * 8 + 32 * 8) >>

clmm_size_mismatch(d) == Len(d) # RAYDIUM_LIQUIDITY_POOL_CLMM_DATA_SIZE

clmm_get_liquidity_pool_info(d) ==
    IF clmm_size_mismatch(d)
    THEN Err("clmm", "SizeMismatch",
             <<RAYDIUM_LIQUIDITY_POOL_CLMM_DATA_SIZE, Len(d)>>, <<>>, 0, FALSE)
    ELSE LET wk == Walk(d, ClmmWalk, DISCRIMINATOR_LEN) IN
         IF wk.kind = "Panic" THEN Panic("clmm")
         ELSE IF wk.o # Len(d)
         THEN Err("clmm", "OffsetMismatch", <<Len(d), wk.o>>,
                  wk.fields, wk.o, TRUE)
         ELSE Ok("clmm", wk.fields, wk.o, TRUE)

------------------------------------------------------------------------------
(* liquidity/v4.rs *)

SWAP_BASE_IN_AMOUNT_OFFSET == 256
SWAP_QUOTE_OUT_AMOUNT_OFFSET == 272
SWAP_BASE2_QUOTE_FEE_OFFSET == 288
SWAP_QUOTE_IN_AMOUNT_OFFSET == 296
SWAP_BASE_OUT_AMOUNT_OFFSET == 312
SWAP_QUOTE2_BASE_FEE_OFFSET == 328

\* mutant: the last fields in the order of the struct's offset comments
V4Tail_as_commented ==
    << F("lp_reserve", "u64"), F("owner", "pubkey"), P("bytes", 24) >>

\* the last three fields of the struct: owner, lp_reserve, padding_1
V4Tail == << F("owner", "pubkey"), F("lp_reserve", "u64"), P("bytes", 24) >>

\* the #[repr(C)] struct RaydiumLiquidityPoolV4, field by field.  Every field
\* starts at a multiple of its alignment, so the compiler inserts no padding
\* and a field's offset is the sum of the widths before it.
V4Struct ==
    << F("status", "u64"), F("nonce", "u64"), F("max_order", "u64"),
       F("depth", "u64"), F("base_decimal", "u64"), F("quote_decimal", "u64"),
       F("state", "u64"), F("reset_flag", "u64"), F("min_size", "u64"),
       F("vol_max_cut_ratio", "u64"), F("amount_wave_ratio", "u64"),
       F("base_lot_size", "u64"), F("quote_lot_size", "u64"),
       F("min_price_multiplier", "u64"), F("max_price_multiplier", "u64"),
       F("system_decimal_value", "u64"),
       F("min_separate_numerator", "u64"),
       F("min_separate_denominator", "u64"),
       F("trade_fee_numerator", "u64"), F("trade_fee_denominator", "u64"),
       F("pnl_numerator", "u64"), F("pnl_denominator", "u64"),
       F("swap_fee_numerator", "u64"), F("swap_fee_denominator", "u64"),
       F("base_need_take_pnl", "u64"), F("quote_need_take_pnl", "u64"),
       F("quote_total_pnl", "u64"), F("base_total_pnl", "u64"),
       F("pool_open_time", "u64"), F("punish_pc_amount", "u64"),
       F("punish_coin_amount", "u64"), F("orderbook_to_init_time", "u64"),
       P("u64", 8), P("u64", 8), P("u64", 8),
       P("u64", 8), P("u64", 8), P("u64", 8),
       P("bytes", 32),
       F("base_vault", "pubkey"), F("quote_vault", "pubkey"),
       F("base_mint", "pubkey"), F("quote_mint", "pubkey"),
       F("lp_mint", "pubkey"), F("open_orders", "pubkey"),
       F("market_id", "pubkey"), F("market_program_id", "pubkey"),
       F("target_orders", "pubkey"), F("withdraw_queue", "pubkey"),
       F("lp_vault", "pubkey") >>
    \o V4Tail

\* std::mem::size_of::<RaydiumLiquidityPoolV4>()
size_of_V4 == Advance(V4Struct, 1, Len(V4Struct))

\* the struct's alignment is that of its u64 fields; bytemuck::from_bytes
\* panics unless the slice has the struct's size and starts at a multiple of it
from_bytes_ok(d, al) == al /\ Len(d) = size_of_V4

\* the accessors status() .. reset_flag() return `self.field as u8`
V4Narrowed ==
    {"status", "nonce", "max_order", "depth", "base_decimal", "quote_decimal",
     "state", "reset_flag"}

v4_accessor(e) ==
    IF e.n \in V4Narrowed THEN [e EXCEPT !.v = as_u8(e.v), !.k = "u8"] ELSE e

\* mutant: the swap fields are the six 64-bit placeholders of the struct
v4_swap_fields_as_struct(d) ==
    LET f(n, o) == [n |-> n, i |-> 0, k |-> "u64", o |-> o, w |-> 8,
                    v |-> r_u64(d, o)]
    IN << f("swap_base_in_amount", 256), f("swap_quote_out_amount", 264),
          f("swap_base2_quote_fee", 272), f("swap_quote_in_amount", 280),
          f("swap_base_out_amount", 288), f("swap_quote2_base_fee", 296) >>

\* lines 114-119: the six swap fields, read with the readers of tool.rs
v4_swap_fields(d) ==
    LET f(n, k, o, v) == [n |-> n, i |-> 0, k |-> k, o |-> o, w |-> Width(k),
                          v |-> v]
    IN << f("swap_base_in_amount", "u128", SWAP_BASE_IN_AMOUNT_OFFSET,
            r_u128(d, SWAP_BASE_IN_AMOUNT_OFFSET)),
          f("swap_quote_out_amount", "u128", SWAP_QUOTE_OUT_AMOUNT_OFFSET,
            r_u128(d, SWAP_QUOTE_OUT_AMOUNT_OFFSET)),
          f("swap_base2_quote_fee", "u64", SWAP_BASE2_QUOTE_FEE_OFFSET,
            r_u64(d, SWAP_BASE2_QUOTE_FEE_OFFSET)),
          f("swap_quote_in_amount", "u128", SWAP_QUOTE_IN_AMOUNT_OFFSET,
            r_u128(d, SWAP_QUOTE_IN_AMOUNT_OFFSET)),
          f("swap_base_out_amount", "u128", SWAP_BASE_OUT_AMOUNT_OFFSET,
            r_u128(d, SWAP_BASE_OUT_AMOUNT_OFFSET)),
          f("swap_quote2_base_fee", "u64", SWAP_QUOTE2_BASE_FEE_OFFSET,
            r_u64(d, SWAP_QUOTE2_BASE_FEE_OFFSET)) >>

\* lines 121-173: RaydiumLiquidityPoolData from the cast struct `pool`
v4_pool_data(d, pool) ==
    LET scalar(e) == e.n # "_padding" /\ e.k # "pubkey" /\ e.n # "lp_reserve"
        tail(e) == e.k = "pubkey" \/ e.n = "lp_reserve"
        acc == [j \in 1..Len(pool) |-> v4_accessor(pool[j])]
    IN SelectSeq(acc, scalar) \o v4_swap_fields(d) \o SelectSeq(acc, tail)

v4_size_mismatch(d) == Len(d) # RAYDIUM_LIQUIDITY_POOL_V4_DATA_SIZE

\* no running offset exists in this decoder and no final comparison is made
v4_get_liquidity_pool_info(d, al) ==
    IF v4_size_mismatch(d) THEN Err("v4", "SizeMismatch", <<>>, <<>>, 0, FALSE)
    ELSE IF Len(d) < size_of_V4
    THEN Err("v4", "LengthError", <<>>, <<>>, 0, FALSE)
    ELSE IF ~from_bytes_ok(SubSeq(d, 1, size_of_V4), al)
    THEN Panic("v4")
    ELSE LET pool == Walk(d, V4Struct, 0).fields IN
         Ok("v4", v4_pool_data(d, pool), 0, FALSE)

------------------------------------------------------------------------------
(* lib.rs: the wrappers Raydium::get_liquidity_pool_*.  Each parses the    *)
(* address, fetches the account bytes and hands them to its decoder.       *)

Wrappers ==
    {"get_liquidity_pool_v4", "get_liquidity_pool_cpmm",
     "get_liquidity_pool_clmm", "get_liquidity_pool_launchpad"}

\* the decoder a wrapper calls on the fetched bytes
wrapped_decoder(w, d, al) ==
    CASE w = "get_liquidity_pool_v4" -> v4_get_liquidity_pool_info(d, al)
      [] w = "get_liquidity_pool_cpmm" -> cpmm_get_liquidity_pool_info(d)
      [] w = "get_liquidity_pool_clmm" -> clmm_get_liquidity_pool_info(d)
      [] w = "get_liquidity_pool_launchpad" ->
           launchpad_get_liquidity_pool_info(d)

\* format!("{:?}", e): the Debug form of the message, in double quotes
debug_fmt(e) == "\"" \o e \o "\""

\* Pubkey::from_str(address).map_err(..).unwrap(): the key, or a panic
from_str_unwrap(w, parses) ==
    IF parses THEN Ok(w, <<>>, 0, FALSE) ELSE Panic(w)

\* the body of a wrapper: `parses` and `fetched` say whether the address is
\* a public key and whether get_account_data returned the bytes d
get_liquidity_pool(w, parses, fetched, d, al) ==
    LET key == from_str_unwrap(w, parses) IN
    IF key.kind # "Ok" THEN key
    ELSE IF ~fetched
    THEN Err(w, debug_fmt("ClientError"), <<>>, <<>>, 0, FALSE)
    ELSE LET pool == wrapped_decoder(w, d, al) IN
         CASE pool.kind = "Ok" -> [pool EXCEPT !.fn = w]
           [] pool.kind = "Err" ->
                Err(w, debug_fmt(pool.err), pool.ctx, <<>>, 0, FALSE)
           [] pool.kind = "Panic" -> Panic(w)

------------------------------------------------------------------------------
(* Derived metrics.  A metric is called on the record a decoder returned   *)
(* (the `fields` of an Ok result).                                         *)

\* results of a metric call: `args` are the inputs the caller supplied
\* besides the record, `env` what else the call met: the reading of the
\* clock and the build's overflow behaviour, or which lookup completed first
Metric(fn, kind, v, args, env) ==
    [fn |-> fn, kind |-> kind, v |-> v, args |-> args, env |-> env]

\* a > 0.0
f64_gt_zero(a) == a.c = "inf" \/ (a.c = "fin" /\ ~IsZero(a))

\* launchpad.rs, LaunchpadPoolData::get_price
launchpad_get_price(rec) ==
    IF Get(rec, "virtual_base", 0) = Zeros(8) THEN F64Zero
    ELSE f64_div(as_f64(Get(rec, "virtual_quote", 0)),
                 as_f64(Get(rec, "virtual_base", 0)))

\* launchpad.rs, LaunchpadPoolData::get_real_price
launchpad_get_real_price(rec) ==
    IF Get(rec, "real_base", 0) = Zeros(8) THEN F64Zero
    ELSE f64_div(as_f64(Get(rec, "real_quote", 0)),
                 as_f64(Get(rec, "real_base", 0)))

\* launchpad.rs, LaunchpadPoolData::get_unlocked_amount.  `now` is what
\* SystemTime::now() returns, in seconds since the epoch.  The sums are u64
\* additions: one that does not fit panics in a build with overflow checks
\* and wraps in one without (`wraps`)

\* mutant: the full amount is due only after the end of the unlock window
unlock_branch_strict(rec, now, wraps) ==
    LET start == Get(rec, "start_time", 0)
        cliff == Get(rec, "cliff_period", 0)
        unlock == Get(rec, "unlock_period", 0)
        cliff_end == wrapping_add(start, cliff)
        unlock_end == wrapping_add(cliff_end, unlock)
    IN IF Get(rec, "total_locked_amount", 0) = Zeros(8) THEN "nothing_locked"
       ELSE IF add_overflows(start, cliff) /\ ~wraps THEN "overflow"
       ELSE IF NLess(now, cliff_end) THEN "before_cliff"
       ELSE IF add_overflows(cliff_end, unlock) /\ ~wraps THEN "overflow"
       ELSE IF NLess(unlock_end, now) THEN "fully_unlocked"
       ELSE "interpolated"

\* lines 320-335: the branch the call takes
unlock_branch(rec, now, wraps) ==
    LET start == Get(rec, "start_time", 0)
        cliff == Get(rec, "cliff_period", 0)
        unlock == Get(rec, "unlock_period", 0)
        cliff_end == wrapping_add(start, cliff)
        unlock_end == wrapping_add(cliff_end, unlock)
    IN IF Get(rec, "total_locked_amount", 0) = Zeros(8) THEN "nothing_locked"
       ELSE IF add_overflows(start, cliff) /\ ~wraps THEN "overflow"
       ELSE IF NLess(now, cliff_end) THEN "before_cliff"
       ELSE IF add_overflows(cliff_end, unlock) /\ ~wraps THEN "overflow"
       ELSE IF ~NLess(now, unlock_end) THEN "fully_unlocked"
       ELSE "interpolated"

get_unlocked_amount(rec, now, wraps) ==
    LET fn == "get_unlocked_amount"
        total == Get(rec, "total_locked_amount", 0)
        unlock == Get(rec, "unlock_period", 0)
        cliff_end == wrapping_add(Get(rec, "start_time", 0),
                                  Get(rec, "cliff_period", 0))
        branch == unlock_branch(rec, now, wraps)
    IN CASE branch = "nothing_locked" ->
              Metric(fn, "U64", Zeros(8), <<>>, <<>>)
         [] branch = "overflow" ->
              Metric(fn, "Panic", <<>>, <<>>, <<now, wraps>>)
         [] branch = "before_cliff" ->
              Metric(fn, "U64", Zeros(8), <<>>, <<now, wraps>>)
         [] branch = "fully_unlocked" ->
              Metric(fn, "U64", total, <<>>, <<now, wraps>>)
         [] branch = "interpolated" ->
              LET elapsed == wrapping_sub(now, cliff_end)
                  unlock_ratio == f64_div(as_f64(elapsed), as_f64(unlock))
              IN Metric(fn, "U64",
                        f64_as_u64(f64_mul(as_f64(total),
                                           f64_min_one(unlock_ratio))),
                        <<>>, <<now, wraps>>)

\* (1u128 << 64) as f64
TwoPow64 == [c |-> "fin", m |-> <<16, 0, 0, 0, 0, 0, 0>>, x |-> 12]

\* clmm.rs: sqrt_price_x64 as f64 / (1u128 << 64) as f64
clmm_sqrt_price(rec) == f64_div(as_f64(Get(rec, "sqrt_price_x64", 0)), TwoPow64)

\* clmm.rs, RaydiumLiquidityPoolCLMMData::get_price (the client is unused)
clmm_get_price(rec) == f64_mul(clmm_sqrt_price(rec), clmm_sqrt_price(rec))

\* clmm.rs, get_token_0_amount
get_token_0_amount(rec) ==
    IF Get(rec, "liquidity", 0) = Zeros(16) THEN F64Zero
    ELSE f64_div(as_f64(Get(rec, "liquidity", 0)), clmm_sqrt_price(rec))

\* clmm.rs, get_token_1_amount
get_token_1_amount(rec) ==
    IF Get(rec, "liquidity", 0) = Zeros(16) THEN F64Zero
    ELSE f64_mul(as_f64(Get(rec, "liquidity", 0)), clmm_sqrt_price(rec))

\* the outcome of a balance lookup (solana_tool::account::
\* get_spl_token_balance, an external collaborator): not yet completed,
\* a raw amount, or a failure
Pending == [st |-> "Pending", v |-> Zeros(8)]
Balance(n) == [st |-> "Ok", v |-> n]
LookupFailed == [st |-> "Err", v |-> Zeros(8)]

\* 10^d as a 128-bit numeral (d <= 38)
RECURSIVE Pow10(_)
Pow10(d) ==
    IF d = 0 THEN One(16) ELSE Resize(NMul(Pow10(d - 1), <<10>>), 16)

\* solana_tool::unit::conver_balance: the raw amount scaled by its decimals
conver_balance(balance, decimals) ==
    f64_div(as_f64(balance), as_f64(Pow10(decimals)))

\* mutant: the macro returns as soon as one future has completed (select!)
join_ready_first(lk) == lk.base.st # "Pending" \/ lk.quote.st # "Pending"

\* tokio::join!: the macro returns when every future has completed
join_ready(lk) == lk.base.st # "Pending" /\ lk.quote.st # "Pending"

\* cpmm.rs, RaydiumLiquidityPoolCPMMData::get_price after the join
cpmm_get_price(rec, base, quote, env) ==
    LET fn == "cpmm_get_price"
        base_amount == conver_balance(base.v, Get(rec, "mint_0_decimals", 0)[1])
        quote_amount ==
            conver_balance(quote.v, Get(rec, "mint_1_decimals", 0)[1])
    IN IF base.st # "Ok"
       THEN Metric(fn, "Err", "Failed to get base token balance",
                   <<base, quote>>, env)
       ELSE IF quote.st # "Ok"
       THEN Metric(fn, "Err", "Failed to get quote token balance",
                   <<base, quote>>, env)
       ELSE IF f64_gt_zero(base_amount)
       THEN Metric(fn, "F64", f64_div(quote_amount, base_amount),
                   <<base, quote>>, env)
       ELSE Metric(fn, "Err", "Base token amount is zero",
                   <<base, quote>>, env)

\* v4.rs, RaydiumLiquidityPoolData::get_price after the join: both results
\* are unwrapped
v4_get_price(rec, base, quote, env) ==
    LET fn == "v4_get_price" IN
    IF base.st # "Ok" \/ quote.st # "Ok"
    THEN Metric(fn, "Panic", <<>>, <<base, quote>>, env)
    ELSE Metric(fn, "F64",
                f64_div(conver_balance(quote.v,
                                       Get(rec, "quote_decimal", 0)[1]),
                        conver_balance(base.v,
                                       Get(rec, "base_decimal", 0)[1])),
                <<base, quote>>, env)

------------------------------------------------------------------------------
(* The caller: it allocates a zero-filled buffer, writes fields into it    *)
(* and hands it to a decoder or to a reader.                               *)

Sizes ==
    {LAUNCHPAD_POOL_STATE_DATA_SIZE, RAYDIUM_LIQUIDITY_POOL_CPMM_DATA_SIZE,
     RAYDIUM_LIQUIDITY_POOL_V4_DATA_SIZE, RAYDIUM_LIQUIDITY_POOL_CLMM_DATA_SIZE}

Lens == {0} \cup {sz + dd : sz \in Sizes, dd \in (0 - MaxDelta)..MaxDelta}

\* the numeral of width w whose digit of weight 256^p is c, the others 0
Num(w, p, c) == [j \in 1..w |-> IF j = w - p THEN c ELSE 0]

\* an identifier with 32 distinct bytes
Id(c) == [j \in 1..32 |-> c + j]

Probe(o, k, v) == [o |-> o, k |-> k, v |-> v]

\* an account discriminator: eight non-zero bytes
Discriminator == <<8, 7, 6, 5, 4, 3, 2, 1>>

\* the u64 with the value n < 65536
U64(n) == <<0, 0, 0, 0, 0, 0, n \div 256, n % 256>>

\* uN::to_le_bytes / iN::to_le_bytes of the numeral v; an identifier is raw
Encode(k, v) ==
    IF k = "pubkey" THEN v ELSE [j \in 1..Len(v) |-> v[Len(v) + 1 - j]]

\* the four consecutive u64 fields of a vesting schedule, as they lie in the
\* account: total_locked_amount, cliff_period, unlock_period, start_time
Schedule(total, cliff, unlock, start) ==
    Encode("u64", total) \o Encode("u64", cliff) \o Encode("u64", unlock)
      \o Encode("u64", start)

LaunchpadProbes ==
    { Probe(17, "u8", <<2>>), Probe(17, "u8", <<3>>),
      Probe(20, "u8", <<1>>), Probe(20, "u8", <<2>>),
      Probe(365, "u8", <<1>>), Probe(365, "u8", <<2>>), Probe(365, "u8", <<3>>),
      Probe(365, "u8", <<253>>),
      Probe(366, "u8", <<1>>), Probe(366, "u8", <<2>>),
      Probe(21, "u64", Num(8, 7, 128)),
      Probe(0, "u64", Discriminator) }

\* reserves and vesting schedules, written into accounts of the declared size
LaunchpadMetricProbes ==
    { Probe(37, "u64", U64(4)), Probe(45, "u64", U64(10)),
      Probe(53, "u64", U64(3)),
      Probe(101, "pubkey", Schedule(U64(100), U64(10), U64(100), U64(1000))),
      Probe(101, "pubkey", Schedule(U64(100), U64(39), U64(0), U64(1000))),
      Probe(101, "pubkey", Schedule(U64(100), U64(1011), U64(100), U64_MAX)),
      Probe(101, "pubkey",
            Schedule(<<128, 0, 0, 0, 0, 0, 4, 1>>, U64(0), Num(8, 6, 64),
                     U64(0))) }

CpmmProbes ==
    { Probe(329, "u8", <<1>>), Probe(389, "u8", <<7>>),
      Probe(390, "u8", <<2>>), Probe(333, "u64", Num(8, 7, 1)),
      Probe(397, "u64", Num(8, 0, 5)), Probe(8, "pubkey", Id(0)),
      Probe(0, "u64", Discriminator) }

V4Probes ==
    { Probe(0, "u64", Num(8, 0, 6)), Probe(0, "u64", Num(8, 1, 1)),
      Probe(256, "u128", Num(16, 15, 1)), Probe(288, "u64", Num(8, 7, 3)),
      Probe(688, "pubkey", Id(100)), Probe(720, "u64", Num(8, 0, 9)) }

ClmmProbes ==
    { Probe(235, "u16", <<1, 2>>), Probe(237, "u128", Num(16, 15, 1)),
      Probe(269, "i32", <<255, 255, 255, 255>>),
      Probe(269, "i32", <<0, 0, 1, 0>>),
      Probe(566, "u8", <<1>>), Probe(1024, "u64", Num(8, 7, 255)),
      Probe(0, "u64", Discriminator) }

\* a square-root price of 1.0 in Q64.64
ClmmMetricProbes == { Probe(253, "u128", Num(16, 8, 1)) }

Near(n, sz) == n - sz \in (0 - MaxDelta)..MaxDelta

\* the fields a caller writes into a buffer of length n
ProbesFor(n) ==
    IF n = LAUNCHPAD_POOL_STATE_DATA_SIZE
    THEN LaunchpadProbes \cup LaunchpadMetricProbes
    ELSE IF n = RAYDIUM_LIQUIDITY_POOL_CLMM_DATA_SIZE
    THEN ClmmProbes \cup ClmmMetricProbes
    ELSE IF Near(n, LAUNCHPAD_POOL_STATE_DATA_SIZE) THEN LaunchpadProbes
    ELSE IF Near(n, RAYDIUM_LIQUIDITY_POOL_CPMM_DATA_SIZE) THEN CpmmProbes
    ELSE IF Near(n, RAYDIUM_LIQUIDITY_POOL_V4_DATA_SIZE) THEN V4Probes
    ELSE IF Near(n, RAYDIUM_LIQUIDITY_POOL_CLMM_DATA_SIZE) THEN ClmmProbes
    ELSE {}

\* the integer a 4-digit two's-complement numeral stands for
I32(v) ==
    (IF v[1] >= 128 THEN v[1] - 256 ELSE v[1]) * 16777216
      + v[2] * 65536 + v[3] * 256 + v[4]

Overlap(e1, e2) ==
    e1.o < e2.o + Width(e2.k) /\ e2.o < e1.o + Width(e1.k)

NoCall ==
    [fn |-> "none", kind |-> "None", err |-> "", ctx |-> <<>>,
     fields |-> <<>>, o |-> 0, checked |-> FALSE]

\* the result of a primitive reader: a bare value
Val(fn, k, off, v) ==
    [fn |-> fn, kind |-> "Val", err |-> "", ctx |-> <<>>,
     fields |-> <<[n |-> "ret", i |-> 0, k |-> k, o |-> off, w |-> Width(k),
                   v |-> v]>>,
     o |-> off, checked |-> FALSE]

NoMetric ==
    [fn |-> "none", kind |-> "None", v |-> <<>>, args |-> <<>>, env |-> <<>>]

\* no price call is in progress
NoLookups ==
    [fn |-> "none", answers |-> <<Pending, Pending>>, base |-> Pending,
     quote |-> Pending, first |-> "none"]

\* what the collaborator answers to the lookup of the base and quote vaults
BaseOutcomes == {Balance(Zeros(8)), Balance(Num(8, 0, 4)), LookupFailed}
QuoteOutcomes == {Balance(Num(8, 0, 10)), LookupFailed}

\* the times the system clock is read at: around the ends of the cliff and
\* of the unlock window of the schedules below
Times ==
    { U64(1009), U64(1039), U64(1110),
      <<0, 63, 255, 255, 255, 255, 255, 255>>, Num(8, 6, 64) }

\* the offsets the readers are tried at: the written fields, the last span
\* inside the slice and the first one that sticks out.  A read looks at one
\* span and not at the placement of the slice, so the readers are tried on
\* aligned buffers that hold at most one written field
ReaderOffsets(w) ==
    IF Cardinality(known) > 1 \/ ~aligned THEN {}
    ELSE {e.o : e \in known}
           \cup {off \in {Len(data) - w, Len(data) - w + 1} : off >= 0}

Init ==
    /\ data = <<>>
    /\ aligned = TRUE
    /\ known = {}
    /\ res = NoCall
    /\ met = [cur |-> NoMetric, prev |-> NoMetric]
    /\ lookups = NoLookups

Alloc(n, al) ==
    /\ res = NoCall
    /\ data' = Zeros(n)
    /\ aligned' = al
    /\ known' = {}
    /\ res' = NoCall
    /\ UNCHANGED <<met, lookups>>

\* the fields written for the metrics and those written for the layout go
\* into different buffers
ForMetrics(e) == e \in LaunchpadMetricProbes \cup ClmmMetricProbes

Put(e) ==
    /\ res = NoCall
    /\ Cardinality(known) < MaxPuts
    /\ \A e2 \in known : ForMetrics(e2) = ForMetrics(e)
    /\ e.o + Width(e.k) <= Len(data)
    /\ \A e2 \in known : ~Overlap(e, e2)
    /\ data' = [j \in 1..Len(data) |->
                   IF j > e.o /\ j <= e.o + Width(e.k)
                   THEN Encode(e.k, e.v)[j - e.o] ELSE data[j]]
    /\ known' = known \cup {e}
    /\ UNCHANGED <<aligned, res, met, lookups>>

DecodeLaunchpad ==
    /\ res = NoCall
    /\ res' = launchpad_get_liquidity_pool_info(data)
    /\ UNCHANGED <<data, aligned, known, met, lookups>>

DecodeCpmm ==
    /\ res = NoCall
    /\ res' = cpmm_get_liquidity_pool_info(data)
    /\ UNCHANGED <<data, aligned, known, met, lookups>>

DecodeClmm ==
    /\ res = NoCall
    /\ res' = clmm_get_liquidity_pool_info(data)
    /\ UNCHANGED <<data, aligned, known, met, lookups>>

DecodeV4 ==
    /\ res = NoCall
    /\ res' = v4_get_liquidity_pool_info(data, aligned)
    /\ UNCHANGED <<data, aligned, known, met, lookups>>

ReadU8(off) ==
    /\ res = NoCall
    /\ res' = Val("r_u8", "u8", off, r_u8(data, off))
    /\ UNCHANGED <<data, aligned, known, met, lookups>>

ReadU16(off) ==
    /\ res = NoCall
    /\ res' = Val("r_u16", "u16", off, r_u16(data, off))
    /\ UNCHANGED <<data, aligned, known, met, lookups>>

ReadU32(off) ==
    /\ res = NoCall
    /\ res' = Val("r_u32", "u32", off, r_u32(data, off))
    /\ UNCHANGED <<data, aligned, known, met, lookups>>

ReadU64(off) ==
    /\ res = NoCall
    /\ res' = Val("r_u64", "u64", off, r_u64(data, off))
    /\ UNCHANGED <<data, aligned, known, met, lookups>>

ReadU128(off) ==
    /\ res = NoCall
    /\ res' = Val("r_u128", "u128", off, r_u128(data, off))
    /\ UNCHANGED <<data, aligned, known, met, lookups>>

ReadPubkey(off) ==
    /\ res = NoCall
    /\ res' = Val("r_pubkey", "pubkey", off, r_pubkey(data, off))
    /\ UNCHANGED <<data, aligned, known, met, lookups>>

\* the metric m has returned; the caller keeps the result before it when
\* that was a call of the same metric with the same arguments
Returned(m) ==
    [cur |-> m,
     prev |-> IF met.cur.fn = m.fn /\ met.cur.args = m.args THEN met.cur
              ELSE NoMetric]

\* a record of the variant fn is at hand, no price call is in progress, and
\* the caller has not yet two results to compare
Holds(fn) ==
    /\ res.fn = fn /\ res.kind = "Ok"
    /\ lookups = NoLookups
    /\ met.prev.fn = "none"

LaunchpadGetPrice ==
    /\ Holds("launchpad")
    /\ met' = Returned(Metric("launchpad_get_price", "F64",
                               launchpad_get_price(res.fields), <<>>, <<>>))
    /\ UNCHANGED <<data, aligned, known, res, lookups>>

LaunchpadGetRealPrice ==
    /\ Holds("launchpad")
    /\ met' = Returned(Metric("launchpad_get_real_price", "F64",
                               launchpad_get_real_price(res.fields),
                               <<>>, <<>>))
    /\ UNCHANGED <<data, aligned, known, res, lookups>>

\* the system clock shows `now`; a build either wraps or does not
GetUnlockedAmount(now, wraps) ==
    /\ Holds("launchpad")
    /\ (met.cur.fn = "get_unlocked_amount" /\ met.cur.env # <<>>)
          => met.cur.env[2] = wraps
    /\ met' = Returned(get_unlocked_amount(res.fields, now, wraps))
    /\ UNCHANGED <<data, aligned, known, res, lookups>>

ClmmGetPrice ==
    /\ Holds("clmm")
    /\ met' = Returned(Metric("clmm_get_price", "F64",
                               clmm_get_price(res.fields), <<>>, <<>>))
    /\ UNCHANGED <<data, aligned, known, res, lookups>>

ClmmGetToken0Amount ==
    /\ Holds("clmm")
    /\ met' = Returned(Metric("get_token_0_amount", "F64",
                               get_token_0_amount(res.fields), <<>>, <<>>))
    /\ UNCHANGED <<data, aligned, known, res, lookups>>

ClmmGetToken1Amount ==
    /\ Holds("clmm")
    /\ met' = Returned(Metric("get_token_1_amount", "F64",
                               get_token_1_amount(res.fields), <<>>, <<>>))
    /\ UNCHANGED <<data, aligned, known, res, lookups>>

\* get_price up to the join!: both lookups are started; base and quote are
\* what the collaborator is going to answer.  A call that follows another
\* one finds the vaults as they were
CpmmGetPriceCall(base, quote) ==
    /\ Holds("cpmm")
    /\ met.cur.fn = "cpmm_get_price" => met.cur.args = <<base, quote>>
    /\ lookups' = [NoLookups EXCEPT !.fn = "cpmm", !.answers = <<base, quote>>]
    /\ UNCHANGED <<data, aligned, known, res, met>>

V4GetPriceCall(base, quote) ==
    /\ Holds("v4")
    /\ met.cur.fn = "v4_get_price" => met.cur.args = <<base, quote>>
    /\ lookups' = [NoLookups EXCEPT !.fn = "v4", !.answers = <<base, quote>>]
    /\ UNCHANGED <<data, aligned, known, res, met>>

\* the collaborator completes one of the two lookups
BaseLookupCompletes ==
    /\ lookups.fn # "none"
    /\ lookups.base = Pending
    /\ lookups' = [lookups EXCEPT
                      !.base = lookups.answers[1],
                      !.first = IF @ = "none" THEN "base" ELSE @]
    /\ UNCHANGED <<data, aligned, known, res, met>>

QuoteLookupCompletes ==
    /\ lookups.fn # "none"
    /\ lookups.quote = Pending
    /\ lookups' = [lookups EXCEPT
                      !.quote = lookups.answers[2],
                      !.first = IF @ = "none" THEN "quote" ELSE @]
    /\ UNCHANGED <<data, aligned, known, res, met>>

\* the join! has returned: the rest of get_price runs
CpmmGetPriceReturn ==
    /\ lookups.fn = "cpmm"
    /\ join_ready(lookups)
    /\ met' = Returned(cpmm_get_price(res.fields, lookups.base,
                                       lookups.quote, <<lookups.first>>))
    /\ lookups' = NoLookups
    /\ UNCHANGED <<data, aligned, known, res>>

V4GetPriceReturn ==
    /\ lookups.fn = "v4"
    /\ join_ready(lookups)
    /\ met' = Returned(v4_get_price(res.fields, lookups.base,
                                     lookups.quote, <<lookups.first>>))
    /\ lookups' = NoLookups
    /\ UNCHANGED <<data, aligned, known, res>>

\* the caller drops the record and everything computed from it
\* a call of a wrapper.  When the address does not parse or the fetch fails
\* there are no account bytes
GetLiquidityPool(w, parses, fetched) ==
    /\ res = NoCall
    /\ (~parses \/ ~fetched) => (data = <<>> /\ aligned)
    /\ res' = get_liquidity_pool(w, parses, fetched, data, aligned)
    /\ UNCHANGED <<data, aligned, known, met, lookups>>

Discard ==
    /\ res # NoCall
    /\ res' = NoCall
    /\ met' = [cur |-> NoMetric, prev |-> NoMetric]
    /\ lookups' = NoLookups
    /\ UNCHANGED <<data, aligned, known>>

Next ==
    \/ \E n \in Lens, al \in BOOLEAN : Alloc(n, al)
    \/ \E e \in ProbesFor(Len(data)) : Put(e)
    \/ DecodeLaunchpad
    \/ DecodeCpmm
    \/ DecodeClmm
    \/ DecodeV4
    \/ \E w \in Wrappers, parses, fetched \in BOOLEAN :
          GetLiquidityPool(w, parses, fetched)
    \/ \E off \in ReaderOffsets(1) : ReadU8(off)
    \/ \E off \in ReaderOffsets(2) : ReadU16(off)
    \/ \E off \in ReaderOffsets(4) : ReadU32(off)
    \/ \E off \in ReaderOffsets(8) : ReadU64(off)
    \/ \E off \in ReaderOffsets(16) : ReadU128(off)
    \/ \E off \in ReaderOffsets(32) : ReadPubkey(off)
    \/ LaunchpadGetPrice
    \/ LaunchpadGetRealPrice
    \/ \E now \in Times, wraps \in BOOLEAN : GetUnlockedAmount(now, wraps)
    \/ ClmmGetPrice
    \/ ClmmGetToken0Amount
    \/ ClmmGetToken1Amount
    \/ \E b \in BaseOutcomes, q \in QuoteOutcomes : CpmmGetPriceCall(b, q)
    \/ \E b \in BaseOutcomes, q \in QuoteOutcomes : V4GetPriceCall(b, q)
    \/ BaseLookupCompletes
    \/ QuoteLookupCompletes
    \/ CpmmGetPriceReturn
    \/ V4GetPriceReturn
    \/ Discard

Spec == Init /\ [][Next]_vars

------------------------------------------------------------------------------
(* Properties *)

Decoders == {"launchpad", "cpmm", "clmm", "v4"}
Readers == {"r_u8", "r_u16", "r_u32", "r_u64", "r_u128", "r_pubkey"}

DeclaredSize(fn) ==
    CASE fn = "launchpad" -> LAUNCHPAD_POOL_STATE_DATA_SIZE
      [] fn = "cpmm" -> RAYDIUM_LIQUIDITY_POOL_CPMM_DATA_SIZE
      [] fn = "clmm" -> RAYDIUM_LIQUIDITY_POOL_CLMM_DATA_SIZE
      [] fn = "v4" -> RAYDIUM_LIQUIDITY_POOL_V4_DATA_SIZE

\* the byte of the slice at Rust offset o
At(o) == data[o + 1]

\* C1: a decoder called on a slice whose length is not the variant's declared
\* size returns the size-mismatch error, having read no field: it returns no
\* other error, no record, and does not panic.
C1_WrongLengthIsSizeMismatch ==
    (res.fn \in Decoders /\ Len(data) # DeclaredSize(res.fn))
        => /\ res.kind = "Err"
           /\ res.err = "SizeMismatch"
           /\ res.fields = <<>>

\* a misplaced V4 slice one byte short, with a field written, was rejected
C1_Witness ==
    /\ res.fn = "v4" /\ ~aligned /\ known # {}
    /\ Len(data) = RAYDIUM_LIQUIDITY_POOL_V4_DATA_SIZE - 1
    /\ res.err = "SizeMismatch"

\* the value a field must have after decoding a zero-filled buffer
IsZeroField(e) ==
    CASE e.n = "_padding" -> TRUE
      [] e.n = "status" /\ e.k = "enum" -> e.v = "Fund"
      [] e.n = "migrate_type" -> e.v = "AMM"
      [] e.n = "base_token_program" -> e.v = "SPLTokenProgram"
      [] e.n = "quote_token_program" -> e.v = "SPLTokenProgram"
      [] e.n = "amm_creator_fee_on" -> e.v = "QuoteToken"
      [] e.k = "bool" -> e.v = FALSE
      [] e.k = "i32" -> e.v = 0
      [] e.k = "pubkey" -> e.v = Zeros(32)
      [] OTHER -> Canon(e.v) = <<>>

\* C2: every decoder, given a zero-filled buffer of exactly its declared size,
\* returns a record whose enum fields are the code-0 variants, whose integers
\* are 0, whose booleans are false and whose identifiers are all-zero.
C2_ZeroBufferDecodesToZeroRecord ==
    (/\ res.fn \in Decoders
     /\ Len(data) = DeclaredSize(res.fn)
     /\ data = Zeros(Len(data)))
        => /\ res.kind = "Ok"
           /\ \A j \in 1..Len(res.fields) : IsZeroField(res.fields[j])

\* C3: in the launchpad decoder status 0/1/2 is Fund/Migrate/Trade, migrate
\* type 0/1 is AMM/CPSWAP and creator-fee mode 0/1 is QuoteToken/BothToken;
\* an exactly-sized input with one of the three bytes outside its set yields
\* an error carrying the raw value of such a byte, never a record.
C3_LaunchpadEnumsAreClosed ==
    (res.fn = "launchpad" /\ Len(data) = LAUNCHPAD_POOL_STATE_DATA_SIZE)
        => LET st == At(17)
               mt == At(20)
               cf == At(366)
               bad == (IF st > 2 THEN {st} ELSE {})
                        \cup (IF mt > 1 THEN {mt} ELSE {})
                        \cup (IF cf > 1 THEN {cf} ELSE {})
           IN IF bad # {}
              THEN /\ res.kind = "Err"
                   /\ res.err = "UnknownEnum"
                   /\ \E b \in bad : res.ctx = <<b>>
              ELSE /\ res.kind = "Ok"
                   /\ Get(res.fields, "status", 0)
                        = <<"Fund", "Migrate", "Trade">>[st + 1]
                   /\ Get(res.fields, "migrate_type", 0)
                        = <<"AMM", "CPSWAP">>[mt + 1]
                   /\ Get(res.fields, "amm_creator_fee_on", 0)
                        = <<"QuoteToken", "BothToken">>[cf + 1]

\* status byte 3, one past the highest known code, was rejected with its value
C3_Witness ==
    /\ res.fn = "launchpad"
    /\ Len(data) = LAUNCHPAD_POOL_STATE_DATA_SIZE
    /\ At(17) = 3
    /\ res.err = "UnknownEnum" /\ res.ctx = <<3>>

\* a field decoded from the span a written field occupies has its value
SameValue(f, e) ==
    CASE e.k = "pubkey" -> f.v = e.v
      [] e.k = "i32" -> f.v = I32(e.v)
      [] f.k = "bool" -> f.v = (e.v # <<0>>)
      [] OTHER -> Canon(f.v) = Canon(e.v)

\* C4: round trip, for every variant: a field the caller wrote at its offset
\* is returned with that value at the full width of the wire field (nothing
\* is truncated: a 64-bit V4 status keeps its 64-bit value).
C4_RoundTripAtFullWidth ==
    (res.fn \in Decoders /\ res.kind = "Ok")
        => \A e \in known : \A j \in 1..Len(res.fields) :
              LET f == res.fields[j] IN
              (f.n # "_padding" /\ f.k # "enum"
                 /\ f.o = e.o /\ f.w = Width(e.k))
                  => SameValue(f, e)

\* the reads of a result, without the fields derived from them
Reads(fs) == LET raw(e) == e.k # "enum" IN SelectSeq(fs, raw)

\* the spans of fs cover from..to, each byte once, in order
Tiles(fs, from, to) ==
    /\ fs # <<>>
    /\ fs[1].o = from
    /\ \A j \in 1..Len(fs) : fs[j].w > 0
    /\ \A j \in 1..(Len(fs) - 1) : fs[j + 1].o = fs[j].o + fs[j].w
    /\ fs[Len(fs)].o + fs[Len(fs)].w = to

\* C5: on an input of exactly the declared size the launchpad, CLMM and CPMM
\* decoders end their walk with the offset equal to the length, the spans
\* read or skipped covering bytes 8..end once each; the offset-mismatch error
\* is not returned.
C5_WalkCoversExactlySizedInput ==
    (res.fn \in {"launchpad", "clmm", "cpmm"}
       /\ Len(data) = DeclaredSize(res.fn))
        => /\ res.kind \in {"Ok", "Err"}
           /\ res.err # "OffsetMismatch"
           /\ res.o = Len(data)
           /\ Tiles(Reads(res.fields), DISCRIMINATOR_LEN, Len(data))

\* a launchpad walk that ended in an enum error covered the input as well
C5_Witness ==
    /\ res.fn = "launchpad" /\ res.err = "UnknownEnum"
    /\ res.o = LAUNCHPAD_POOL_STATE_DATA_SIZE
    /\ Len(Reads(res.fields)) = Len(LaunchpadWalk) + 1

\* C6: each of the four decoders, having consumed fields and padding,
\* compares the final offset with the input length.
C6_EveryDecoderChecksFinalOffset ==
    (res.fn \in Decoders /\ res.kind = "Ok") => res.checked

\* C7: no call of a decoder panics, whatever the slice's length, content and
\* placement in memory.
C7_NoDecoderPanics ==
    res.fn \in Decoders => res.kind # "Panic"

\* bit i of the byte b
Bit(b, i) == (b \div (2 ^ i)) % 2

\* C8: base_token_program is TokenProgram2022 exactly when bit 0 of the flag
\* byte is set, quote_token_program exactly when bit 1 is set.
C8_TokenProgramBits ==
    (res.fn = "launchpad" /\ res.kind = "Ok")
        => LET b == At(365) IN
           /\ Get(res.fields, "base_token_program", 0)
                = (IF Bit(b, 0) = 1 THEN "TokenProgram2022"
                   ELSE "SPLTokenProgram")
           /\ Get(res.fields, "quote_token_program", 0)
                = (IF Bit(b, 1) = 1 THEN "TokenProgram2022"
                   ELSE "SPLTokenProgram")

\* bit 1 alone set: the quote side is extended, the base side is not
C8_Witness ==
    /\ res.fn = "launchpad" /\ res.kind = "Ok" /\ At(365) = 2
    /\ Get(res.fields, "base_token_program", 0) = "SPLTokenProgram"
    /\ Get(res.fields, "quote_token_program", 0) = "TokenProgram2022"

ReadKinds == {"u8", "bool", "u16", "u32", "i32", "u64", "u128", "pubkey"}

\* the value of e is the little-endian value of the bytes of its span
LittleEndian(e) ==
    CASE e.k = "pubkey" -> \A i \in 0..31 : e.v[i + 1] = At(e.o + i)
      [] e.k = "bool" -> e.v = (At(e.o) # 0)
      [] e.k = "i32" ->
           /\ e.v % 256 = At(e.o)
           /\ (e.v \div 256) % 256 = At(e.o + 1)
           /\ (e.v \div 65536) % 256 = At(e.o + 2)
           /\ (e.v \div 16777216) % 256 = At(e.o + 3)
           /\ (e.v < 0) = (At(e.o + 3) >= 128)
      [] OTHER ->
           /\ Len(e.v) = e.w
           /\ \A i \in 0..(e.w - 1) : e.v[e.w - i] = At(e.o + i)

\* C9: a read of width w at offset o returns the little-endian value of bytes
\* o..o+w-1 (two's complement for tick_current, the raw bytes for an
\* identifier) and leaves the offset at o+w; a reader of tool.rs returns the
\* same value for a span inside the slice.
C9_ReadsAreLittleEndian ==
    /\ (res.fn \in {"launchpad", "clmm", "cpmm"} /\ res.kind = "Ok")
        => LET fs == Reads(res.fields) IN
           \A j \in 1..Len(fs) :
              /\ (fs[j].k \in ReadKinds /\ fs[j].n # "_padding")
                    => LittleEndian(fs[j])
              /\ fs[j].w = (IF fs[j].k \in ReadKinds THEN Width(fs[j].k)
                            ELSE fs[j].w)
              /\ (IF j < Len(fs) THEN fs[j + 1].o ELSE res.o)
                    = fs[j].o + fs[j].w
    /\ (res.fn \in Readers /\ res.o + res.fields[1].w <= Len(data))
        => LittleEndian(res.fields[1])

\* tick_current written as -1 and a 128-bit liquidity came back from the CLMM
\* walk, or a reader returned a written non-zero field
C9_Witness ==
    \/ /\ res.fn = "clmm" /\ res.kind = "Ok"
       /\ Get(res.fields, "tick_current", 0) = 0 - 1
       /\ Get(res.fields, "liquidity", 0) = Num(16, 15, 1)
    \/ /\ res.fn = "r_u64" /\ res.o + 8 <= Len(data)
       /\ res.fields[1].v = Num(8, 7, 128)

\* C10: a primitive reader asked for a span that exceeds the slice fails
\* instead of returning a value.
C10_OutOfBoundsReadFails ==
    (res.fn \in Readers /\ res.o + res.fields[1].w > Len(data))
        => res.kind = "Err"

\* the slice d with its DISCRIMINATOR_LEN leading bytes replaced by zeros
ZeroHead(d) ==
    [j \in 1..Len(d) |-> IF j <= DISCRIMINATOR_LEN THEN 0 ELSE d[j]]

\* the decoder named fn, applied to the slice d
Decode(fn, d) ==
    CASE fn = "launchpad" -> launchpad_get_liquidity_pool_info(d)
      [] fn = "cpmm" -> cpmm_get_liquidity_pool_info(d)
      [] fn = "clmm" -> clmm_get_liquidity_pool_info(d)

\* C11: the CPMM, CLMM and launchpad decoders start their walk at offset 8
\* and read none of the bytes 0..7: the result on an exactly-sized input is
\* the result on the input that differs from it only by zeroed bytes 0..7.
\* The V4 decoder skips nothing: its status is taken from byte 0 onwards.
C11_DiscriminatorIsSkipped ==
    /\ (res.fn \in {"launchpad", "cpmm", "clmm"}
          /\ Len(data) = DeclaredSize(res.fn))
        => /\ res.kind \in {"Ok", "Err"}
           /\ \A j \in 1..Len(res.fields) :
                 res.fields[j].k = "enum"
                   \/ res.fields[j].o >= DISCRIMINATOR_LEN
           /\ Reads(res.fields)[1].o = DISCRIMINATOR_LEN
           /\ res = Decode(res.fn, ZeroHead(data))
    /\ (res.fn = "v4" /\ res.kind = "Ok")
        => /\ res.fields[1].n = "status" /\ res.fields[1].o = 0
           /\ res.fields[1].v = <<At(0)>>

\* a CPMM account with a non-zero discriminator and a non-zero first field
\* was decoded, the first field coming from byte 8
C11_Witness ==
    /\ res.fn = "cpmm" /\ res.kind = "Ok"
    /\ Slice(data, 0, 8) = Encode("u64", Discriminator)
    /\ Get(res.fields, "amm_config", 0) = Id(0)
    /\ res.fields[1].o = 8

\* the value of field n of the record at hand
Field(n) == Get(res.fields, n, 0)

PriceMetrics == {"cpmm_get_price", "v4_get_price"}

\* the metric m was computed with its base reserve, or the liquidity, being 0
ZeroBase(m) ==
    CASE m.fn = "launchpad_get_price" -> Field("virtual_base") = Zeros(8)
      [] m.fn = "launchpad_get_real_price" -> Field("real_base") = Zeros(8)
      [] m.fn \in PriceMetrics ->
           m.args[1] = Balance(Zeros(8)) /\ m.args[2].st = "Ok"
      [] m.fn \in {"get_token_0_amount", "get_token_1_amount"} ->
           Field("liquidity") = Zeros(16)
      [] OTHER -> FALSE

\* C12: every spot-price and per-side token-amount metric returns exactly 0.0
\* when its base reserve (or the liquidity) is 0: no error, no division by
\* zero.
C12_ZeroBaseGivesZero ==
    ZeroBase(met.cur) => (met.cur.kind = "F64" /\ met.cur.v = F64Zero)

\* C13: with t the current time, get_unlocked_amount returns 0 for every
\* t < start + cliff, total_locked_amount for every
\* t >= start + cliff + unlock_period, and in between
\* total * (t - start - cliff) / unlock_period (the ratio and the product in
\* floating point), truncated to an integer.
C13_UnlockedAmountIsPiecewiseLinear ==
    met.cur.fn = "get_unlocked_amount"
        => LET total == Field("total_locked_amount")
               cliff_end == wrapping_add(Resize(Field("start_time"), 9),
                                         Resize(Field("cliff_period"), 9))
               unlock_end == wrapping_add(cliff_end,
                                          Resize(Field("unlock_period"), 9))
           IN /\ met.cur.kind = "U64"
              /\ IF met.cur.env = <<>>
                 THEN total = Zeros(8) /\ met.cur.v = Zeros(8)
                 ELSE LET t == Resize(met.cur.env[1], 9)
                          elapsed == Resize(wrapping_sub(t, cliff_end), 8)
                      IN met.cur.v =
                           IF NLess(t, cliff_end) THEN Zeros(8)
                           ELSE IF ~NLess(t, unlock_end) THEN total
                           ELSE f64_as_u64(f64_mul(as_f64(total),
                                    f64_div(as_f64(elapsed),
                                            as_f64(Field("unlock_period")))))

\* C14: for a fixed schedule and non-decreasing current times the successive
\* results of get_unlocked_amount are non-decreasing, and every result is at
\* most total_locked_amount.
C14_UnlockedAmountIsMonotoneAndBounded ==
    (met.cur.fn = "get_unlocked_amount" /\ met.cur.kind = "U64")
        => /\ ~NLess(Field("total_locked_amount"), met.cur.v)
           /\ (/\ met.prev.fn = "get_unlocked_amount"
               /\ met.prev.kind = "U64"
               /\ met.prev.env # <<>> /\ met.cur.env # <<>>
               /\ ~NLess(met.cur.env[1], met.prev.env[1]))
                => ~NLess(met.cur.v, met.prev.v)

\* C15: a metric called twice on the same record with the same arguments
\* returns the same result: nothing but its explicit inputs decides it.
C15_MetricsAreDeterministic ==
    (met.prev.fn # "none" /\ met.prev.fn = met.cur.fn
       /\ met.prev.args = met.cur.args)
        => /\ met.cur.kind = met.prev.kind
           /\ met.cur.v = met.prev.v

\* C16: when one of the two balance lookups of CPMM or V4 get_price fails,
\* the call returns a failure that reports the lookup's failure: it returns
\* no price and does not abort.
C16_LookupFailurePropagates ==
    (met.cur.fn \in PriceMetrics
       /\ (met.cur.args[1].st = "Err" \/ met.cur.args[2].st = "Err"))
        => /\ met.cur.kind = "Err"
           /\ met.cur.v \in {"Failed to get base token balance",
                             "Failed to get quote token balance"}

\* C17: CPMM and V4 get_price compute nothing before both lookups have
\* completed, and two calls whose lookups had the same outcomes return the
\* same result whichever lookup completed first.
C17_CompletionOrderIsIrrelevant ==
    met.cur.fn \in PriceMetrics
        => /\ met.cur.args[1].st # "Pending"
           /\ met.cur.args[2].st # "Pending"
           /\ met.cur.env[1] \in {"base", "quote"}
           /\ (met.prev.fn = met.cur.fn /\ met.prev.args = met.cur.args)
                => /\ met.cur.kind = met.prev.kind
                   /\ met.cur.v = met.prev.v

\* the same price came back from a call whose quote lookup completed first
\* and from one whose base lookup did
C17_Witness ==
    /\ met.cur.fn = "cpmm_get_price" /\ met.cur.kind = "F64"
    /\ met.prev.fn = "cpmm_get_price" /\ met.prev.kind = "F64"
    /\ met.prev.env = <<"base">> /\ met.cur.env = <<"quote">>
    /\ met.cur.v = met.prev.v
    /\ met.cur.args = <<Balance(Num(8, 0, 4)), Balance(Num(8, 0, 10))>>

\* C18: every error a decoder returns carries its context: a size mismatch
\* the expected size and the actual length, an offset mismatch the expected
\* and the reached offset, an unknown enum code the offending byte.
C18_ErrorsCarryContext ==
    (res.fn \in Decoders /\ res.kind = "Err")
        => CASE res.err = "SizeMismatch" ->
                  res.ctx = <<DeclaredSize(res.fn), Len(data)>>
             [] res.err = "OffsetMismatch" -> res.ctx = <<Len(data), res.o>>
             [] res.err = "UnknownEnum" ->
                  \/ res.ctx = <<At(17)>> /\ At(17) > 2
                  \/ res.ctx = <<At(20)>> /\ At(20) > 1
                  \/ res.ctx = <<At(366)>> /\ At(366) > 1
             [] OTHER -> FALSE

\* the position of each field in a reward slot, and its width
RewardLayout ==
    << <<"reward_state", 0, 1>>, <<"reward_open_time", 1, 8>>,
       <<"reward_end_time", 9, 8>>, <<"reward_last_update_time", 17, 8>>,
       <<"emissions_per_second_x64", 25, 16>>,
       <<"reward_total_emissioned", 41, 8>>, <<"reward_claimed", 49, 8>>,
       <<"reward_token_mint", 57, 32>>, <<"reward_token_vault", 89, 32>>,
       <<"reward_authority", 121, 32>>,
       <<"reward_growth_global_x64", 153, 16>> >>

\* the entries of the record named n
Named(n) == {j \in 1..Len(res.fields) : res.fields[j].n = n}

C20_V4OwnerPrecedesLpReserve ==
    (res.fn = "v4" /\ res.kind = "Ok")
        => LET vault == res.fields[CHOOSE j \in Named("lp_vault") : TRUE]
               owner == res.fields[CHOOSE j \in Named("owner") : TRUE]
               lp_reserve == res.fields[CHOOSE j \in Named("lp_reserve") : TRUE]
           IN /\ vault.o + vault.w = 688
              /\ owner.o = 688 /\ owner.w = 32
              /\ owner.v = Slice(data, 688, 32)
              /\ lp_reserve.o = 720 /\ lp_reserve.w = 8
              /\ LittleEndian(lp_reserve)
              /\ lp_reserve.o + lp_reserve.w + 24
                   = RAYDIUM_LIQUIDITY_POOL_V4_DATA_SIZE
              /\ owner.o # 752 /\ lp_reserve.o # 688

\* an owner and a reserve written at 688 and 720 came back
C20_Witness ==
    /\ res.fn = "v4" /\ res.kind = "Ok"
    /\ Get(res.fields, "owner", 0) = Id(100)
    /\ Get(res.fields, "lp_reserve", 0) = Num(8, 0, 9)

\* the one entry of the record named n
Entry(n) == res.fields[CHOOSE j \in Named(n) : TRUE]

Fresh == met.cur.fn = "none" /\ lookups.fn = "none"

\* the buffer with byte b written at offset o
WithByte(o, b) == [data EXCEPT ![o + 1] = b]

\* the byte values tried at the two creator-fee offsets: the ends of the
\* range, the values around the known codes and around the sign bit
FeeModeBytes == {0, 1, 2, 3, 127, 128, 254, 255}

\* C22: the CPMM decoder rejects no creator-fee mode: for every value of byte
\* 389 creator_fee_on is that raw byte, and enable_creator_fee is true
\* exactly when byte 390 is non-zero, whatever creator_fee_on is.
C22_CreatorFeeModeIsRaw ==
    (res.fn = "cpmm" /\ res.kind = "Ok")
        => /\ Get(res.fields, "creator_fee_on", 0) = <<At(389)>>
           /\ Get(res.fields, "enable_creator_fee", 0) = (At(390) # 0)
           /\ Fresh => \A b \in FeeModeBytes :
                 LET on == cpmm_get_liquidity_pool_info(WithByte(389, b))
                     en == cpmm_get_liquidity_pool_info(WithByte(390, b))
                 IN /\ on.kind = "Ok" /\ en.kind = "Ok"
                    /\ Get(on.fields, "creator_fee_on", 0) = <<b>>
                    /\ Get(on.fields, "enable_creator_fee", 0) = (At(390) # 0)
                    /\ Get(en.fields, "enable_creator_fee", 0) = (b # 0)
                    /\ Get(en.fields, "creator_fee_on", 0) = <<At(389)>>

\* mode byte 7 came back raw, and the following byte 2 as true
C22_Witness ==
    /\ res.fn = "cpmm" /\ res.kind = "Ok"
    /\ At(389) = 7 /\ Get(res.fields, "creator_fee_on", 0) = <<7>>
    /\ At(390) = 2 /\ Get(res.fields, "enable_creator_fee", 0) = TRUE

\* the byte ranges of the LaunchpadPool field comments: the name of the
\* field as the decoder reads it, its first byte counted from the end of the
\* discriminator, and its width
LaunchpadDocumented ==
    << <<"epoch", 0, 8>>, <<"auth_bump", 8, 1>>, <<"status_byte", 9, 1>>,
       <<"base_decimals", 10, 1>>, <<"quote_decimals", 11, 1>>,
       <<"migrate_type_byte", 12, 1>>,
       <<"supply", 16, 8>>, <<"total_base_sell", 24, 8>>,
       <<"virtual_base", 32, 8>>, <<"virtual_quote", 40, 8>>,
       <<"real_base", 48, 8>>, <<"real_quote", 56, 8>>,
       <<"total_quote_fund_raising", 64, 8>>,
       <<"quote_protocol_fee", 72, 8>>, <<"platform_fee", 80, 8>>,
       <<"migrate_fee", 88, 8>>,
       <<"total_locked_amount", 96, 8>>, <<"cliff_period", 104, 8>>,
       <<"unlock_period", 112, 8>>, <<"start_time", 120, 8>>,
       <<"allocated_share_amount", 128, 8>>,
       <<"global_config", 136, 32>>, <<"platform_config", 168, 32>>,
       <<"base_mint", 200, 32>>, <<"quote_mint", 232, 32>>,
       <<"base_vault", 264, 32>>, <<"quote_vault", 296, 32>>,
       <<"creator", 328, 32>>,
       <<"token_program_flag_byte", 360, 1>>,
       <<"amm_creator_fee_on_byte", 361, 1>> >>

\* C23: the launchpad decoder reads every field at the byte range of the
\* LaunchpadPool field comments, counted from the end of the 8-byte
\* discriminator: five single bytes at 8..12, three bytes of padding, supply
\* at 16-23, the vesting fields at 96-135, the identifiers at 136-359, the
\* flag at 360, amm_creator_fee_on at 361, and a padding tail of 59 bytes.
C23_LaunchpadReadsDocumentedRanges ==
    (res.fn = "launchpad" /\ res.kind = "Ok")
        => /\ \A k \in 1..Len(LaunchpadDocumented) :
                 LET doc == LaunchpadDocumented[k]
                     f == Entry(doc[1])
                 IN /\ f.o = DISCRIMINATOR_LEN + doc[2]
                    /\ f.w = doc[3]
           /\ \E j \in Named("_padding") :
                 /\ res.fields[j].o = DISCRIMINATOR_LEN + 362
                 /\ res.fields[j].w = 59

\* C24: length and the launchpad enum bytes decide success: the V4, CPMM and
\* CLMM decoders return Ok for every buffer of exactly the declared size,
\* whatever its content, and the launchpad decoder returns Ok exactly when
\* the length is 429, the status byte (17) is at most 2, the migrate-type
\* byte (20) at most 1 and the creator-fee byte (366) at most 1.
C24_SuccessIsLengthAndLaunchpadEnums ==
    res.fn \in Decoders
        => (res.kind = "Ok"
              <=> /\ Len(data) = DeclaredSize(res.fn)
                  /\ res.fn = "launchpad"
                       => (At(17) <= 2 /\ At(20) <= 1 /\ At(366) <= 1))

\* the swap fields of the V4 record, in the order they are read, and the
\* byte ranges claimed for them
SwapFields ==
    << <<"swap_base_in_amount", 256, 16>>, <<"swap_quote_out_amount", 272, 16>>,
       <<"swap_base2_quote_fee", 288, 8>>, <<"swap_quote_in_amount", 296, 16>>,
       <<"swap_base_out_amount", 312, 16>>, <<"swap_quote2_base_fee", 328, 8>> >>

SwapNames == {SwapFields[k][1] : k \in 1..Len(SwapFields)}

\* C25: the V4 decoder reads its six swap fields from bytes 256-271, 272-287,
\* 288-295, 296-311, 312-327 and 328-335: ranges that are disjoint and
\* contiguous, cover exactly the 80 bytes between orderbook_to_init_time
\* (ends at 255) and base_vault (starts at 336), and overlap no field taken
\* from the struct cast.
C25_SwapFieldsFillTheGap ==
    (res.fn = "v4" /\ res.kind = "Ok")
        => LET sw == [k \in 1..Len(SwapFields) |-> Entry(SwapFields[k][1])]
               before == Entry("orderbook_to_init_time")
               after == Entry("base_vault")
           IN /\ \A k \in 1..Len(SwapFields) :
                    /\ Cardinality(Named(SwapFields[k][1])) = 1
                    /\ sw[k].o = SwapFields[k][2]
                    /\ sw[k].w = SwapFields[k][3]
                    /\ sw[k].v = from_le_bytes(Slice(data, sw[k].o, sw[k].w))
              /\ before.o + before.w = 256 /\ after.o = 336
              /\ Tiles(sw, before.o + before.w, after.o)
              /\ after.o - (before.o + before.w) = 80
              /\ \A j \in 1..Len(res.fields) : \A k \in 1..Len(SwapFields) :
                    res.fields[j].n \notin SwapNames
                        => \/ res.fields[j].o + res.fields[j].w <= sw[k].o
                           \/ sw[k].o + sw[k].w <= res.fields[j].o

\* a 128-bit amount written at 256 and a fee written at 288 came back
C25_Witness ==
    /\ res.fn = "v4" /\ res.kind = "Ok"
    /\ Get(res.fields, "swap_base_in_amount", 0) = Num(16, 15, 1)
    /\ Get(res.fields, "swap_base2_quote_fee", 0) = Num(8, 7, 3)

\* C26: for every record the launchpad decoder returns and every current
\* time, the sums start_time + cliff_period and start_time + cliff_period +
\* unlock_period that get_unlocked_amount computes fit in a u64: the call
\* neither wraps around nor panics.
C26_VestingSumsFitU64 ==
    (met.cur.fn = "get_unlocked_amount" /\ met.cur.env # <<>>)
        => LET start == Field("start_time")
               cliff_end == wrapping_add(start, Field("cliff_period"))
           IN /\ met.cur.kind # "Panic"
              /\ ~add_overflows(start, Field("cliff_period"))
              /\ ~NLess(met.cur.env[1], cliff_end)
                   => ~add_overflows(cliff_end, Field("unlock_period"))

\* C27: get_unlocked_amount interpolates only when unlock_period > 0: with
\* unlock_period = 0 every current time at or after start_time + cliff_period
\* takes the fully-unlocked branch, so elapsed / unlock_period never has a
\* zero divisor.
C27_NoInterpolationOverEmptyWindow ==
    (met.cur.fn = "get_unlocked_amount" /\ met.cur.env # <<>>)
        => LET branch == unlock_branch(res.fields, met.cur.env[1],
                                       met.cur.env[2])
               cliff_end == wrapping_add(Resize(Field("start_time"), 9),
                                         Resize(Field("cliff_period"), 9))
           IN /\ branch = "interpolated"
                   => Field("unlock_period") # Zeros(8)
              /\ (/\ Field("unlock_period") = Zeros(8)
                  /\ ~NLess(Resize(met.cur.env[1], 9), cliff_end))
                   => /\ branch = "fully_unlocked"
                      /\ met.cur.kind = "U64"
                      /\ met.cur.v = Field("total_locked_amount")

\* with an empty unlock window the call at the very end of the cliff
\* returned the full amount
C27_Witness ==
    /\ met.cur.fn = "get_unlocked_amount" /\ met.cur.kind = "U64"
    /\ Field("unlock_period") = Zeros(8)
    /\ Field("total_locked_amount") = U64(100)
    /\ met.cur.env # <<>>
    /\ met.cur.env[1] = wrapping_add(Field("start_time"), Field("cliff_period"))
    /\ met.cur.v = U64(100)

\* C28: for every record the CLMM decoder returns, get_token_0_amount never
\* divides by zero: when liquidity is non-zero the normalised square-root
\* price it divides by is non-zero, and the result is finite.
C28_Token0AmountIsFinite ==
    met.cur.fn = "get_token_0_amount"
        => /\ met.cur.v.c = "fin"
           /\ Field("liquidity") # Zeros(16)
                => ~IsZero(clmm_sqrt_price(res.fields))

\* values of bits 2..7 of a byte: none set, each one alone, all of them
HighBits == {0, 4, 8, 16, 32, 64, 128, 252}

\* C29: bits 2..7 of the launchpad token-program flag byte (offset 365) have
\* no effect: two exactly-sized inputs that differ only in those bits decode
\* to equal results, and no value of those bits causes a decode error.
C29_HighFlagBitsAreIgnored ==
    (res.fn = "launchpad" /\ Len(data) = LAUNCHPAD_POOL_STATE_DATA_SIZE
       /\ Fresh)
        => \A hi \in HighBits :
              LET other == launchpad_get_liquidity_pool_info(
                               WithByte(365, hi + (At(365) % 4)))
              IN /\ other.kind = res.kind
                 /\ other.err = res.err /\ other.ctx = res.ctx
                 /\ res.kind = "Ok"
                      => LaunchpadPoolData(other.fields)
                           = LaunchpadPoolData(res.fields)

\* a flag byte with bit 0 and all of bits 2..7 set decoded to the 2022
\* program on the base side only
C29_Witness ==
    /\ res.fn = "launchpad" /\ res.kind = "Ok"
    /\ At(365) = 253
    /\ Get(LaunchpadPoolData(res.fields), "base_token_program", 0)
         = "TokenProgram2022"
    /\ Get(LaunchpadPoolData(res.fields), "quote_token_program", 0)
         = "SPLTokenProgram"

\* C30: each wrapper Raydium::get_liquidity_pool_* returns Err for every
\* failure on its path (an address that does not parse, a failed fetch, a
\* decoder error) and never panics; it returns Ok only with the record its
\* decoder produces for the fetched bytes.
C30_WrappersReturnErrOnEveryFailure ==
    res.fn \in Wrappers
        => LET pool == wrapped_decoder(res.fn, data, aligned) IN
           /\ res.kind \in {"Ok", "Err"}
           /\ res.kind = "Ok"
                => (pool.kind = "Ok" /\ res.fields = pool.fields)
           /\ pool.kind # "Ok" => res.kind = "Err"

====
